---- MODULE Spec2Model ----
(***************************************************************************)
(* The ZK Memory game of SGS-ZK-gaming: the Soroban contract that holds    *)
(* the game sessions (start_game, flip_card, verify_card_reveal_proof,     *)
(* get_game) as a state machine over the contract's temporary storage.     *)
(*                                                                         *)
(* The contract source is the lib.rs listing of the implementation plan    *)
(* (src/unnamed/part_001, lines 178-428) with the grid size of the 2x2     *)
(* update (src/unnamed/part_006): 4 cards, 2 pairs.                        *)
(***************************************************************************)
EXTENDS Integers, Sequences, FiniteSets, TLC

(***************************************************************************)
(* Program constants and model bounds                                      *)
(***************************************************************************)

\* for _ in 0..4 { cards.push_back(FaceDown) }  and  if position >= 4
NumCards == 4

\* if game.pairs_found == 2
TotalPairs == 2

\* revealed_value is a u32 argument; the model draws it from 0..MaxValue
MaxValue == 1

Positions == 0 .. (NumCards - 1)

\* position is a u32 argument: every card position and one out of range
PositionArgs == 0 .. NumCards

Values == 0 .. MaxValue

\* Option<T>: None, Some(x)
None == << >>

Some(x) == << x >>

\* The storage key DataKey::Game(session_id) the model tracks, and a second
\* session id that start_game is never called with (a lookup that misses
\* while another session is stored).  Sessions are separate storage entries:
\* flip_card reads and writes only the entry of its own session_id.
SessionIds == {1}

RequestIds == {1, 2}

\* Addresses.  The contract only ever compares addresses for equality, so
\* sessions that differ by a renaming of addresses behave alike: start_game
\* is called with player1 = "alice" and player2 either "alice" again or
\* "bob"; flip_card is invoked by either of them or by "carol", who is never
\* a player.
Dealers == {"alice"}

Players == {"alice", "bob"}

Callers == {"alice", "bob", "carol"}

\* player1_points / player2_points (i128), passed through to the Game Hub
Points == {100}

(***************************************************************************)
(* Decks and commitments                                                   *)
(***************************************************************************)

\* shuffleDeck: a permutation of [0, 1, 0, 1]; a deck is indexed from
\* position 0, i.e. deck[p + 1] is the card at position p
Decks == { <<0, 1, 0, 1>>, <<0, 0, 1, 1>> }

Salts == { "salt-1" }

\* Number.prototype.toString of a card value
toString(v) ==
    CASE v = 0 -> "0" [] v = 1 -> "1" [] v = 2 -> "2" [] v = 3 -> "3" [] v = 4 -> "4"
      [] v = 5 -> "5" [] v = 6 -> "6" [] v = 7 -> "7" [] v = 8 -> "8" [] v = 9 -> "9"

\* the elements of a number array as JSON.stringify writes them: joined by
\* commas
RECURSIVE join(_)
join(deck) ==
    IF deck = << >> THEN ""
    ELSE IF Len(deck) = 1 THEN toString(deck[1])
    ELSE toString(deck[1]) \o "," \o join(Tail(deck))

\* a serialisation that writes only how many cards the deck has
JSON_stringify_deck_length(deck, salt) ==
    "{\"deck\":[" \o toString(Len(deck)) \o "],\"salt\":\"" \o salt \o "\"}"

\* JSON.stringify({ deck, salt })
JSON_stringify(deck, salt) ==
    "{\"deck\":[" \o join(deck) \o "],\"salt\":\"" \o salt \o "\"}"

\* crypto.subtle.digest('SHA-256', data) as a hex string; the digest is
\* represented by its pre-image (the hash taken as collision free)
sha256(data) == << "sha256", data >>

\* generateCommitment: SHA-256 over the serialised {deck, salt}
generateCommitment(deck, salt) == sha256(JSON_stringify(deck, salt))

\* the salt as the field element generateNoirProof passes to the circuit: the
\* first 31 bytes of SHA-256 of the salt, in hex
saltField(salt) == "0x" \o "sha256(" \o salt \o ")[0..31]"

\* pedersen_hash([deck[0], deck[1], deck[2], deck[3], salt]) of the circuit,
\* as computePedersenCommitment extracts it from the public inputs; the hash
\* is represented by its pre-image, and is not SHA-256
computePedersenCommitment(deck, salt_field) ==
    << "pedersen", join(deck) \o "," \o salt_field >>

\* generateNoirProof: the public inputs [position, commitment, revealed
\* value] and the commitment it returns
generateNoirProof(deck, salt, position, revealedValue) ==
    LET commitmentHex == computePedersenCommitment(deck, saltField(salt))
    IN [publicInputs |-> [position |-> position, commitment |-> commitmentHex,
                          value |-> revealedValue],
        commitment   |-> commitmentHex]

Commitments == { generateCommitment(d, s) : d \in Decks, s \in Salts }

\* the deck a commitment binds
DeckOf(c) == CHOOSE d \in Decks : \E s \in Salts : generateCommitment(d, s) = c

(***************************************************************************)
(* Proofs and public inputs                                                *)
(***************************************************************************)

\* public_inputs: [position, deck_commitment, revealed_value]
PublicInputs == [position : PositionArgs, commitment : Commitments, value : Values]

\* generateMockPublicInputs(position, deckCommitment, revealedValue)
generateMockPublicInputs(position, deckCommitment, revealedValue) ==
    [position |-> position, commitment |-> deckCommitment, value |-> revealedValue]

\* The card_reveal circuit: the statement a proof attests is true iff the
\* commitment binds a deck holding revealed_value at position.
CircuitHolds(pi) ==
    /\ pi.position \in Positions
    /\ DeckOf(pi.commitment)[pi.position + 1] = pi.value

\* A proof is either bytes that prove nothing (generateMockProof: zero
\* bytes) or a genuine proof, represented by the statement it proves.  A
\* genuine proof exists only for a true statement (soundness).
MockProof == [kind |-> "mock"]

GenuineProof(pi) == [kind |-> "groth16", statement |-> pi]

\* the proofs a caller can submit along with public inputs pi: the mock
\* bytes, or a genuine proof of pi when pi is true (a genuine proof of any
\* other statement fails the pairing check against pi like the mock bytes)
ProofsFor(pi) == {MockProof} \cup (IF CircuitHolds(pi) THEN {GenuineProof(pi)} ELSE {})

\* env.crypto().verify_groth16_bn254(&vk, public_inputs, proof)
verify_groth16_bn254(public_inputs, proof) ==
    /\ proof.kind = "groth16"
    /\ proof.statement = public_inputs

\* The two builds of the verifier: the body as written (every line of it a
\* comment, so it returns without a panic) and the body with the groth16
\* call uncommented.
Verifiers == {"stub", "groth16"}

(***************************************************************************)
(* Contract state                                                          *)
(***************************************************************************)

VARIABLES
    games,      \* env.storage().temporary(): session_id -> Option<GameState>
    verifier,   \* which build of verify_card_reveal_proof is deployed
    last,       \* the last contract call: the function, the session id, the
                \* outcome and the Game Hub calls it made
    ledger,     \* the network between the clients and the contract: the
                \* flip_card transactions submitted and not yet applied, and
                \* the ones applied so far, in the order of application
    client      \* the ZkMemoryGame component of one browser: its React state,
                \* the action lock and the position of a running
                \* handleFlipCard

vars == << games, verifier, last, ledger, client >>

\* the Game Hub calls (GameHubClient) a contract call makes
HubStartGame(session_id, player1, player2, player1_points, player2_points) ==
    [call |-> "start_game", session_id |-> session_id,
     player1 |-> player1, player2 |-> player2,
     player1_points |-> player1_points, player2_points |-> player2_points]

HubEndGame(session_id, player1_won) ==
    [call |-> "end_game", session_id |-> session_id, player1_won |-> player1_won]

\* a call that panicked: the transaction is reverted, storage is as before
Rejected(err, stored) == [err |-> err, stored |-> stored, hub |-> << >>]

(***************************************************************************)
(* start_game                                                              *)
(***************************************************************************)

\* a GameState literal that gives the first turn to player2
NewGame_player2_first(session_id, player1, player2, deck_commitment) ==
    [session_id      |-> session_id,
     player1         |-> player1,
     player2         |-> player2,
     deck_commitment |-> deck_commitment,
     cards           |-> [p \in Positions |-> "FaceDown"],
     score1          |-> 0,
     score2          |-> 0,
     current_turn    |-> player2,
     flip_one        |-> None,
     flip_one_value  |-> None,
     pairs_found     |-> 0,
     is_active       |-> TRUE]

\* the GameState literal of start_game
NewGame(session_id, player1, player2, deck_commitment) ==
    [session_id      |-> session_id,
     player1         |-> player1,
     player2         |-> player2,
     deck_commitment |-> deck_commitment,
     cards           |-> [p \in Positions |-> "FaceDown"],
     score1          |-> 0,
     score2          |-> 0,
     current_turn    |-> player1,
     flip_one        |-> None,
     flip_one_value  |-> None,
     pairs_found     |-> 0,
     is_active       |-> TRUE]

\* start_game: auth of both players, Game Hub start_game, then the store
\* (no lookup of an existing entry and no comparison of the two players)
start_game(stored, auths, session_id, player1, player2, player1_points, player2_points, deck_commitment) ==
    IF ~({player1, player2} \subseteq auths)
    THEN Rejected("AuthError", stored)
    ELSE [err    |-> "Ok",
          stored |-> Some(NewGame(session_id, player1, player2, deck_commitment)),
          hub    |-> << HubStartGame(session_id, player1, player2,
                                     player1_points, player2_points) >>]

(***************************************************************************)
(* flip_card                                                               *)
(***************************************************************************)

\* verify_card_reveal_proof: TRUE when it returns, FALSE when it panics
\* with InvalidProof.  deck_commitment is a parameter the body never reads.
verify_card_reveal_proof(build, proof, public_inputs, deck_commitment) ==
    IF build = "stub"
    THEN TRUE
    ELSE verify_groth16_bn254(public_inputs, proof)

\* check_flip comparing the caller with current_turn only while no flip is
\* pending
check_flip_turn_on_first_flip_only(game, caller, position) ==
    IF ~game.is_active THEN "GameNotActive"
    ELSE IF game.flip_one = None /\ caller # game.current_turn THEN "NotYourTurn"
    ELSE IF position >= NumCards THEN "InvalidPosition"
    ELSE IF game.cards[position] = "Matched" THEN "CardAlreadyMatched"
    ELSE "Ok"

\* check_flip with the turn check letting either player through
check_flip_any_player(game, caller, position) ==
    IF ~game.is_active THEN "GameNotActive"
    ELSE IF caller \notin {game.player1, game.player2} THEN "NotYourTurn"
    ELSE IF position >= NumCards THEN "InvalidPosition"
    ELSE IF game.cards[position] = "Matched" THEN "CardAlreadyMatched"
    ELSE "Ok"

\* check_flip without the check of the card's state
check_flip_skips_matched(game, caller, position) ==
    IF ~game.is_active THEN "GameNotActive"
    ELSE IF caller # game.current_turn THEN "NotYourTurn"
    ELSE IF position >= NumCards THEN "InvalidPosition"
    ELSE "Ok"

\* the checks of flip_card with the position checks ahead of the others
check_flip_position_first(game, caller, position) ==
    IF position >= NumCards THEN "InvalidPosition"
    ELSE IF game.cards[position] = "Matched" THEN "CardAlreadyMatched"
    ELSE IF ~game.is_active THEN "GameNotActive"
    ELSE IF caller # game.current_turn THEN "NotYourTurn"
    ELSE "Ok"

\* the checks before the proof verification, in the code's order
check_flip(game, caller, position) ==
    IF ~game.is_active THEN "GameNotActive"
    ELSE IF caller # game.current_turn THEN "NotYourTurn"
    ELSE IF position >= NumCards THEN "InvalidPosition"
    ELSE IF game.cards[position] = "Matched" THEN "CardAlreadyMatched"
    ELSE "Ok"

\* first_flip that also hands the turn to the other player
first_flip_passes_turn(game, position, revealed_value) ==
    [game EXCEPT !.flip_one = Some(position),
                 !.flip_one_value = Some(revealed_value),
                 !.current_turn = IF game.current_turn = game.player1
                                  THEN game.player2 ELSE game.player1]

\* first_flip that records the position but not the value
first_flip_position_only(game, position, revealed_value) ==
    [game EXCEPT !.flip_one = Some(position)]

\* first card of the turn: store it
first_flip(game, position, revealed_value) ==
    [game EXCEPT !.flip_one = Some(position),
                 !.flip_one_value = Some(revealed_value)]

\* match_found giving the point to both players
match_found_scores_both(game, pos_a, position) ==
    [game EXCEPT !.cards[pos_a] = "Matched",
                 !.cards[position] = "Matched",
                 !.pairs_found = @ + 1,
                 !.score1 = @ + 1,
                 !.score2 = @ + 1]

\* match_found marking only the card of the second flip
match_found_marks_second_only(game, pos_a, position) ==
    LET marked == [game EXCEPT !.cards[position] = "Matched", !.pairs_found = @ + 1]
    IN IF game.current_turn = game.player1
       THEN [marked EXCEPT !.score1 = @ + 1]
       ELSE [marked EXCEPT !.score2 = @ + 1]

\* match_found that also passes the turn to the other player
match_found_passes_turn(game, pos_a, position) ==
    LET marked == [game EXCEPT !.cards[pos_a] = "Matched",
                               !.cards[position] = "Matched",
                               !.pairs_found = @ + 1,
                               !.current_turn = IF game.current_turn = game.player1
                                                THEN game.player2
                                                ELSE game.player1]
    IN IF game.current_turn = game.player1
       THEN [marked EXCEPT !.score1 = @ + 1]
       ELSE [marked EXCEPT !.score2 = @ + 1]

\* MATCH FOUND: both cards Matched, one more pair, one more point for the
\* player holding the turn, who keeps it
match_found(game, pos_a, position) ==
    LET marked == [game EXCEPT !.cards[pos_a] = "Matched",
                               !.cards[position] = "Matched",
                               !.pairs_found = @ + 1]
    IN IF game.current_turn = game.player1
       THEN [marked EXCEPT !.score1 = @ + 1]
       ELSE [marked EXCEPT !.score2 = @ + 1]

\* no_match leaving the turn where it is
no_match_keeps_turn(game) == game

\* NO MATCH: switch turns
no_match(game) ==
    [game EXCEPT !.current_turn = IF game.current_turn = game.player1
                                  THEN game.player2
                                  ELSE game.player1]

\* second_flip resetting the pending flip only after a match
second_flip_keeps_pending(game, position, revealed_value) ==
    LET pos_a == game.flip_one[1]
        val_a == game.flip_one_value[1]
    IN IF val_a = revealed_value /\ pos_a # position
       THEN [match_found(game, pos_a, position)
                EXCEPT !.flip_one = None, !.flip_one_value = None]
       ELSE no_match(game)

\* second_flip that takes equal values for a match wherever the second
\* card is
second_flip_same_position_matches(game, position, revealed_value) ==
    LET pos_a == game.flip_one[1]
        val_a == game.flip_one_value[1]
        after == IF val_a = revealed_value
                 THEN match_found(game, pos_a, position)
                 ELSE no_match(game)
    IN [after EXCEPT !.flip_one = None, !.flip_one_value = None]

\* second card of the turn: match or not, then the pending flip is reset
second_flip(game, position, revealed_value) ==
    LET pos_a == game.flip_one[1]
        val_a == game.flip_one_value[1]
        after == IF val_a = revealed_value /\ pos_a # position
                 THEN match_found(game, pos_a, position)
                 ELSE no_match(game)
    IN [after EXCEPT !.flip_one = None, !.flip_one_value = None]

\* === GAME LOGIC ===
game_logic(game, position, revealed_value) ==
    IF game.flip_one = None
    THEN first_flip(game, position, revealed_value)
    ELSE second_flip(game, position, revealed_value)

\* game_over that ends the session one pair early
game_over_one_pair_early(game) ==
    IF game.pairs_found = TotalPairs - 1
    THEN [game |-> [game EXCEPT !.is_active = FALSE],
          hub  |-> << HubEndGame(game.session_id, game.score1 > game.score2) >>]
    ELSE [game |-> game, hub |-> << >>]

\* game_over that reports equal scores as a win of player1
game_over_tie_to_player1(game) ==
    IF game.pairs_found = TotalPairs
    THEN [game |-> [game EXCEPT !.is_active = FALSE],
          hub  |-> << HubEndGame(game.session_id, game.score1 >= game.score2) >>]
    ELSE [game |-> game, hub |-> << >>]

\* game_over that never closes the session
game_over_never_closes(game) == [game |-> game, hub |-> << >>]

\* game over: the session is closed and the Game Hub is told who won
game_over(game) ==
    IF game.pairs_found = TotalPairs
    THEN [game |-> [game EXCEPT !.is_active = FALSE],
          hub  |-> << HubEndGame(game.session_id, game.score1 > game.score2) >>]
    ELSE [game |-> game, hub |-> << >>]

\* flip_card resetting the pending flip, and saving, before its checks
flip_card_resets_before_checks(stored, build, session_id, caller, position, revealed_value, proof, public_inputs) ==
    IF stored = None
    THEN Rejected("GameNotFound", stored)
    ELSE LET game  == stored[1]
             check == check_flip(game, caller, position)
             reset == [game EXCEPT !.flip_one = None, !.flip_one_value = None]
         IN IF check # "Ok"
            THEN Rejected(check, Some(reset))
            ELSE IF ~verify_card_reveal_proof(build, proof, public_inputs,
                                              game.deck_commitment)
            THEN Rejected("InvalidProof", stored)
            ELSE LET over == game_over(game_logic(game, position, revealed_value))
                 IN [err |-> "Ok", stored |-> Some(over.game), hub |-> over.hub]

\* flip_card verifying the proof after the game logic and the save
flip_card_verifies_after_save(stored, build, session_id, caller, position, revealed_value, proof, public_inputs) ==
    IF stored = None
    THEN Rejected("GameNotFound", stored)
    ELSE LET game  == stored[1]
             check == check_flip(game, caller, position)
             over  == game_over(game_logic(game, position, revealed_value))
         IN IF check # "Ok"
            THEN Rejected(check, stored)
            ELSE IF ~verify_card_reveal_proof(build, proof, public_inputs,
                                              game.deck_commitment)
            THEN Rejected("InvalidProof", Some(over.game))
            ELSE [err |-> "Ok", stored |-> Some(over.game), hub |-> over.hub]

\* flip_card: the lookup, the checks, the proof verification, the game
\* logic, the game-over check and the save
flip_card(stored, build, session_id, caller, position, revealed_value, proof, public_inputs) ==
    IF stored = None
    THEN Rejected("GameNotFound", stored)
    ELSE LET game  == stored[1]
             check == check_flip(game, caller, position)
         IN IF check # "Ok"
            THEN Rejected(check, stored)
            ELSE IF ~verify_card_reveal_proof(build, proof, public_inputs,
                                              game.deck_commitment)
            THEN Rejected("InvalidProof", stored)
            ELSE LET over == game_over(game_logic(game, position, revealed_value))
                 IN [err |-> "Ok", stored |-> Some(over.game), hub |-> over.hub]

\* get_game that answers a missing session with a fresh one, and stores it
get_game_creates_missing(stored) ==
    IF stored = None
    THEN [err |-> "Ok", hub |-> << >>,
          stored |-> Some(NewGame(1, "alice", "bob",
                                  generateCommitment(<<0, 1, 0, 1>>, "salt-1")))]
    ELSE [err |-> "Ok", stored |-> stored, hub |-> << >>]

\* get_game: the stored session, or GameNotFound
get_game(stored) ==
    IF stored = None THEN Rejected("GameNotFound", stored)
    ELSE [err |-> "Ok", stored |-> stored, hub |-> << >>]

(***************************************************************************)
(* The state machine                                                       *)
(***************************************************************************)

NoCall == [op |-> "none", session_id |-> 0, err |-> "Ok", hub |-> << >>]

\* the entry of a session id in storage
Stored(session_id) ==
    IF session_id \in SessionIds THEN games[session_id] ELSE None

\* The requests flip_card is called with: any invoker, any position, any
\* claimed value; public inputs built for that position
\* (generateMockPublicInputs) over any commitment and any value; as proof the
\* mock bytes or a genuine proof of those public inputs.
RequestsAt(position) ==
    UNION { { [caller |-> caller, position |-> position, revealed_value |-> v,
               public_inputs |-> pi, proof |-> proof] :
                 caller \in Callers, v \in Values, proof \in ProofsFor(pi) } :
            pi \in { generateMockPublicInputs(position, c, pv) :
                       c \in Commitments, pv \in Values } }

FlipRequests == UNION { RequestsAt(position) : position \in PositionArgs }

\* the player that is not p in game (player2 for player1, else player1)
other_player(game, p) == IF p = game.player1 THEN game.player2 ELSE game.player1

\* storage().temporary().has(): the session has a stored entry
HasStored(session_id) == Stored(session_id) # None

\* flip_card applied to the stored entry of session_id
Flip(session_id, req) ==
    flip_card(Stored(session_id), verifier, session_id, req.caller, req.position,
              req.revealed_value, req.proof, req.public_inputs)

\* const [sessionId] = useState(createRandomSessionId())
ClientSessionId == CHOOSE s \in SessionIds : TRUE

\* the component as mounted: useState initial values, actionLock = false,
\* no handleFlipCard running (pc), the counters of the running
\* invocation (attempts: calls of zkMemoryService.flipCard made; landed: one
\* of them returned without an error), and no response of a getGame of the
\* poll on its way (fetched)
NewClient ==
    [gamePhase   |-> "create",
     userAddress |-> "bob",
     gameState   |-> None,
     deck        |-> << >>,
     salt        |-> None,
     commitment  |-> None,
     loading     |-> FALSE,
     actionLock  |-> FALSE,
     error       |-> None,
     pc          |-> "idle",
     position    |-> 0,
     flip_one    |-> None,
     retries     |-> 0,
     i           |-> 0,
     lastError   |-> None,
     attempts    |-> 0,
     landed      |-> FALSE,
     sessionId   |-> ClientSessionId,
     request     |-> None,
     waited      |-> 0,
     fetched     |-> None]

\* no transaction submitted yet
NoTransactions == [mempool |-> {}, applied |-> << >>]

\* storage after the constructor: no session
Init ==
    /\ games = [s \in SessionIds |-> None]
    /\ verifier \in Verifiers
    /\ last = NoCall
    /\ ledger = NoTransactions
    /\ client = NewClient

StartGame ==
    \E session_id \in SessionIds, player1 \in Dealers, player2 \in Players,
       p1 \in Points, p2 \in Points, c \in Commitments, auths \in SUBSET Players :
        LET r == start_game(games[session_id], auths, session_id, player1, player2,
                            p1, p2, c)
        IN /\ games' = [games EXCEPT ![session_id] = r.stored]
           /\ last' = [op |-> "start_game", session_id |-> session_id,
                       err |-> r.err, hub |-> r.hub]
           /\ UNCHANGED << verifier, ledger, client >>

FlipCard ==
    \E session_id \in RequestIds, req \in FlipRequests :
        LET r == Flip(session_id, req)
        IN /\ games' = [s \in SessionIds |->
                           IF s = session_id THEN r.stored ELSE games[s]]
           /\ last' = [op |-> "flip_card", session_id |-> session_id,
                       err |-> r.err, hub |-> r.hub]
           /\ UNCHANGED << verifier, ledger, client >>

GetGame ==
    \E session_id \in RequestIds :
        LET r == get_game(Stored(session_id))
        IN /\ games' = [s \in SessionIds |->
                           IF s = session_id THEN r.stored ELSE games[s]]
           /\ last' = [op |-> "get_game", session_id |-> session_id,
                       err |-> r.err, hub |-> r.hub]
           /\ UNCHANGED << verifier, ledger, client >>

Next == StartGame \/ FlipCard \/ GetGame

Spec == Init /\ [][Next]_vars

(***************************************************************************)
(* Concurrent submission: the two players' clients submit flip_card        *)
(* transactions to the network, which applies them to the contract one     *)
(* after the other, each as a whole invocation (the get of the entry, the  *)
(* checks and the set), in an order of its own choosing.                   *)
(***************************************************************************)

\* transactions in flight at once, and transactions submitted in a run
MaxInFlight == 2

MaxSubmissions == 4

\* the flip a client submits for a card of the deck it holds:
\* revealedValue = deck[position], generateMockProof(),
\* generateMockPublicInputs(position, commitment, revealedValue)
ClientFlip(userAddress, deck, commitment, position) ==
    [caller |-> userAddress, position |-> position,
     revealed_value |-> deck[position + 1],
     public_inputs |-> generateMockPublicInputs(position, commitment, deck[position + 1]),
     proof |-> MockProof]

\* the session of the two players is created once, with both authorisations
LedgerStartGame ==
    \E session_id \in SessionIds, p1 \in Points, p2 \in Points, c \in Commitments :
        LET r == start_game(games[session_id], {"alice", "bob"}, session_id,
                            "alice", "bob", p1, p2, c)
        IN /\ ~HasStored(session_id)
           /\ games' = [games EXCEPT ![session_id] = r.stored]
           /\ last' = [op |-> "start_game", session_id |-> session_id,
                       err |-> r.err, hub |-> r.hub]
           /\ UNCHANGED << verifier, ledger, client >>

\* a player's client submits a flip of one of the cards; it is in flight
\* until the network applies it
SubmitFlip ==
    \E session_id \in SessionIds, userAddress \in Players, position \in Positions :
        /\ HasStored(session_id)
        /\ Cardinality(ledger.mempool) < MaxInFlight
        /\ Cardinality(ledger.mempool) + Len(ledger.applied) < MaxSubmissions
        /\ LET c  == games[session_id][1].deck_commitment
               tx == [session_id |-> session_id,
                      req |-> ClientFlip(userAddress, DeckOf(c), c, position)]
           IN /\ tx \notin ledger.mempool
              /\ ledger' = [ledger EXCEPT !.mempool = @ \cup {tx}]
        /\ UNCHANGED << games, verifier, last, client >>

\* the network applies one transaction in flight: a whole flip_card
\* invocation on the entry as it is stored at that moment
ApplyFlip ==
    \E tx \in ledger.mempool :
        LET r == Flip(tx.session_id, tx.req)
        IN /\ games' = [games EXCEPT ![tx.session_id] = r.stored]
           /\ last' = [op |-> "flip_card", session_id |-> tx.session_id,
                       err |-> r.err, hub |-> r.hub]
           /\ ledger' = [mempool |-> ledger.mempool \ {tx},
                         applied |-> Append(ledger.applied, tx)]
           /\ UNCHANGED << verifier, client >>

NextLedger == LedgerStartGame \/ SubmitFlip \/ ApplyFlip

SpecLedger == Init /\ [][NextLedger]_vars

(***************************************************************************)
(* The client: the ZkMemoryGame component of player2's browser.  It starts *)
(* the session (handleImportAndStart), polls it, and flips cards           *)
(* (handleFlipCard); every await of handleFlipCard ends a step, so the     *)
(* other player's flips and the poll interleave with it.                   *)
(***************************************************************************)

\* let retries = 3
Retries == 3

\* for (let i = 0; i < 3; i++)
RefreshTries == 3

\* An error message is represented by the set of the texts it contains
\* that the client looks for or shows.
includes(errorMsg, text) == text \in errorMsg

\* #[contracterror] codes of enum Error
ErrorCode(err) ==
    CASE err = "GameNotFound"       -> 1
      [] err = "GameNotActive"      -> 2
      [] err = "NotYourTurn"        -> 3
      [] err = "CardAlreadyMatched" -> 4
      [] err = "InvalidProof"       -> 5
      [] err = "InvalidPosition"    -> 6

\* the text a failed contract call carries: Error(Contract, #code)
ContractErrorText(code) ==
    CASE code = 1 -> "Error(Contract, #1)"
      [] code = 2 -> "Error(Contract, #2)"
      [] code = 3 -> "Error(Contract, #3)"
      [] code = 4 -> "Error(Contract, #4)"
      [] code = 5 -> "Error(Contract, #5)"
      [] code = 6 -> "Error(Contract, #6)"

ContractMessage(err) == { ContractErrorText(ErrorCode(err)) }

\* failures of the transport between the client and the network: the two
\* the client retries on, and any other
TransportMessages == { {"TRY_AGAIN_LATER"}, {"txBadSeq"}, {"Failed to fetch"} }

StaleMessage == { "Game state was stale. Please try again - it should be your turn now." }

BusyMessage == { "Network is busy. Please try again in a moment." }

\* zkMemoryService.getGame(sessionId): the stored session, or null (no
\* session, or a failure the service swallows), or a transport failure
\* thrown to the caller
getGame(stored) ==
    { [throws |-> FALSE, game |-> stored, message |-> None],
      [throws |-> FALSE, game |-> None, message |-> None] }
    \cup { [throws |-> TRUE, game |-> None, message |-> Some(m)] : m \in TransportMessages }

\* reconcile keeping the turn the client assumed before it fetched
reconcile_keeps_turn(gameState, game) ==
    IF game # None /\ gameState # None
    THEN Some([game[1] EXCEPT !.current_turn = gameState[1].current_turn])
    ELSE IF game # None THEN game ELSE gameState

\* if (game) setGameState(game)
reconcile(gameState, game) == IF game # None THEN game ELSE gameState

\* if (game.pairs_found === 2) setGamePhase('complete')
phase_after(gamePhase, game) ==
    IF game # None /\ game[1].pairs_found = TotalPairs THEN "complete" ELSE gamePhase

\* on_error retrying whatever the error is
on_error_retries_every_error(retries, errorMsg) ==
    IF retries > 1 THEN "retry"
    ELSE IF includes(errorMsg, "Error(Contract, #3)") THEN "stale"
    ELSE "throw"

\* on_error without the branch for Error(Contract, #3)
on_error_turn_error_fatal(retries, errorMsg) ==
    IF (includes(errorMsg, "TRY_AGAIN_LATER") \/ includes(errorMsg, "txBadSeq")) /\ retries > 1
    THEN "retry"
    ELSE "throw"

\* the catch of the retry loop: retry, refresh the stale state, or rethrow
on_error(retries, errorMsg) ==
    IF (includes(errorMsg, "TRY_AGAIN_LATER") \/ includes(errorMsg, "txBadSeq")) /\ retries > 1
    THEN "retry"
    ELSE IF includes(errorMsg, "Error(Contract, #3)") THEN "stale"
    ELSE "throw"

\* the wait before a retry, in ms, computed after retries--
backoff(retries) == 1000 * (4 - retries)

\* the outer catch and finally of handleFlipCard without the finally: the
\* lock and the loading flag stay set
Finished_without_finally(c, thrown) ==
    [c EXCEPT !.error = IF thrown = None THEN @
                        ELSE IF includes(thrown[1], "TRY_AGAIN_LATER")
                        THEN Some(BusyMessage) ELSE thrown,
              !.pc = "idle",
              !.position = 0,
              !.flip_one = None,
              !.retries = 0,
              !.i = 0,
              !.lastError = None,
              !.attempts = 0,
              !.landed = FALSE,
              !.request = None,
              !.waited = 0]

\* the outer catch and finally of handleFlipCard: thrown is None when the
\* handler returned, Some(message) when it threw
Finished(c, thrown) ==
    [c EXCEPT !.error = IF thrown = None THEN @
                        ELSE IF includes(thrown[1], "TRY_AGAIN_LATER")
                        THEN Some(BusyMessage) ELSE thrown,
              !.loading = FALSE,
              !.actionLock = FALSE,
              !.pc = "idle",
              !.position = 0,
              !.flip_one = None,
              !.retries = 0,
              !.i = 0,
              !.lastError = None,
              !.attempts = 0,
              !.landed = FALSE,
              !.request = None,
              !.waited = 0]

\* an error caught inside the retry loop
Caught(c, errorMsg) ==
    LET c1 == [c EXCEPT !.lastError = Some(errorMsg)]
        on == on_error(c.retries, errorMsg)
    IN IF on = "retry"
       THEN [c1 EXCEPT !.retries = @ - 1, !.pc = "submit", !.i = 0,
                       !.waited = backoff(c.retries - 1)]
       ELSE IF on = "stale" THEN [c1 EXCEPT !.pc = "stale", !.i = 0]
       ELSE Finished(c1, Some(errorMsg))

\* the deck data handleCreateGame exports for Player 2: the dealer's deck,
\* salt and commitment, serialised as they are
exportedDeckData(deck, salt, commitment) ==
    [deck |-> deck, salt |-> salt, commitment |-> commitment]

\* handleImportAndStart: the session is started with the authorisations of
\* both players and the deck data of player1, then loaded
ClientStartGame ==
    \E deck \in Decks, salt \in Salts, p1 \in Points, p2 \in Points :
        LET deckInfo == exportedDeckData(deck, salt, generateCommitment(deck, salt))
            c == deckInfo.commitment
            r == start_game(games[ClientSessionId], {"alice", client.userAddress},
                            ClientSessionId, "alice", client.userAddress, p1, p2, c)
        IN /\ client.gamePhase = "create"
           /\ client.sessionId = ClientSessionId
           /\ ~client.actionLock /\ ~client.loading
           /\ games' = [games EXCEPT ![ClientSessionId] = r.stored]
           /\ last' = [op |-> "start_game", session_id |-> ClientSessionId,
                       err |-> r.err, hub |-> r.hub]
           /\ \E out \in getGame(r.stored) :
                client' = IF out.throws
                          THEN [client EXCEPT !.deck = deckInfo.deck,
                                              !.salt = Some(deckInfo.salt),
                                              !.commitment = Some(c),
                                              !.error = out.message]
                          ELSE [client EXCEPT !.deck = deckInfo.deck,
                                              !.salt = Some(deckInfo.salt),
                                              !.commitment = Some(c),
                                              !.error = None,
                                              !.gameState = reconcile(@, out.game),
                                              !.gamePhase = "playing"]
           /\ UNCHANGED << verifier, ledger >>

\* the poll of the session every 3000 ms while playing
Poll ==
    /\ client.gamePhase = "playing"
    /\ \E out \in getGame(Stored(ClientSessionId)) :
         client' = IF out.throws THEN client
                   ELSE [client EXCEPT !.gameState = reconcile(@, out.game),
                                       !.gamePhase = phase_after(@, out.game)]
    /\ UNCHANGED << games, verifier, last, ledger >>

\* the other player flips a card from a browser of their own
OpponentFlip ==
    \E position \in Positions :
        /\ HasStored(ClientSessionId)
        /\ LET g == games[ClientSessionId][1]
               r == Flip(ClientSessionId,
                         ClientFlip(other_player(g, client.userAddress),
                                    DeckOf(g.deck_commitment), g.deck_commitment, position))
           IN /\ games' = [games EXCEPT ![ClientSessionId] = r.stored]
              /\ last' = [op |-> "flip_card", session_id |-> ClientSessionId,
                          err |-> r.err, hub |-> r.hub]
        /\ UNCHANGED << verifier, ledger, client >>

\* a click on a card that is not disabled: handleFlipCard up to its first
\* await
ClickCard ==
    \E position \in Positions :
        /\ client.gamePhase = "playing" /\ client.gameState # None
        /\ LET gameState == client.gameState[1]
           IN /\ ~client.loading
              /\ gameState.cards[position] # "Matched"
              /\ gameState.current_turn = client.userAddress
              /\ gameState.flip_one # Some(position)
              /\ ~client.actionLock
              /\ client' = [client EXCEPT !.actionLock = TRUE,
                                          !.loading = TRUE,
                                          !.error = None,
                                          !.pc = "submit",
                                          !.position = position,
                                          !.flip_one = gameState.flip_one,
                                          !.retries = Retries,
                                          !.i = 0,
                                          !.lastError = None,
                                          !.attempts = 0,
                                          !.landed = FALSE,
                                          !.request =
                                              Some(ClientFlip(client.userAddress, client.deck,
                                                              client.commitment[1], position)),
                                          !.waited = 0]
        /\ UNCHANGED << games, verifier, last, ledger >>

\* await zkMemoryService.flipCard(...): the transport fails and nothing
\* reaches the contract, or the contract runs flip_card and the call returns
\* (accepted) or throws the contract's error (rejected)
SubmitCard ==
    /\ client.pc = "submit"
    /\ LET c == [client EXCEPT !.attempts = @ + 1]
       IN \/ \E m \in TransportMessages :
               /\ client' = Caught(c, m)
               /\ UNCHANGED << games, last >>
          \/ LET r == Flip(ClientSessionId, client.request[1])
             IN /\ games' = [games EXCEPT ![ClientSessionId] = r.stored]
                /\ last' = [op |-> "flip_card", session_id |-> ClientSessionId,
                            err |-> r.err, hub |-> r.hub]
                /\ client' = IF r.err = "Ok"
                             THEN [c EXCEPT !.landed = TRUE, !.pc = "refresh", !.i = 0]
                             ELSE Caught(c, ContractMessage(r.err))
    /\ UNCHANGED << verifier, ledger >>

\* one round of the refresh loop after the 1500 ms (then 1000 ms) wait:
\* getGame, and after the last round setGameState and the return
RefreshGame ==
    /\ client.pc = "refresh"
    /\ \E out \in getGame(Stored(ClientSessionId)) :
         client' =
           IF out.throws THEN Caught(client, out.message[1])
           ELSE LET game    == out.game
                    updated == /\ game # None
                               /\ client.flip_one # None
                               /\ game[1].flip_one = None
                IN IF updated \/ client.i = RefreshTries - 1
                   THEN Finished([client EXCEPT !.gameState = reconcile(@, game),
                                                !.gamePhase = phase_after(@, game)],
                                 None)
                   ELSE [client EXCEPT !.i = @ + 1]
    /\ UNCHANGED << games, verifier, last, ledger >>

\* the branch for Error(Contract, #3): getGame, setGameState, and the
\* 'Game state was stale' error thrown to the outer catch
RefreshStale ==
    /\ client.pc = "stale"
    /\ \E out \in getGame(Stored(ClientSessionId)) :
         client' =
           IF out.throws THEN Finished(client, out.message)
           ELSE Finished([client EXCEPT !.gameState = reconcile(@, out.game)],
                         Some(StaleMessage))
    /\ UNCHANGED << games, verifier, last, ledger >>

\* createRandomSessionId() of handleStartNewGame: an id no session of the
\* model is stored under
NewSessionId == 1 + Cardinality(SessionIds)

\* handleStartNewGame, from the New Game button of the board or the Start
\* New Game button of the result: the state of the component is reset and
\* the action lock released; a handleFlipCard that is running goes on
StartNewGame ==
    /\ client.gamePhase \in {"playing", "complete"}
    /\ client.gameState # None
    /\ client' = [client EXCEPT !.actionLock = FALSE,
                                !.gamePhase = "create",
                                !.sessionId = NewSessionId,
                                !.gameState = None,
                                !.deck = << >>,
                                !.salt = None,
                                !.commitment = None,
                                !.loading = FALSE,
                                !.error = None]
    /\ UNCHANGED << games, verifier, last, ledger >>

\* a tick of the poll whose response takes its time: getGame reads the
\* session now, the promise resolves later
PollRequest ==
    /\ client.gamePhase = "playing"
    /\ client.fetched = None
    /\ \E out \in getGame(Stored(ClientSessionId)) :
         /\ ~out.throws
         /\ client' = [client EXCEPT !.fetched = Some(out.game)]
    /\ UNCHANGED << games, verifier, last, ledger >>

\* the promise of that tick resolves: if (game) setGameState(game), and
\* setGamePhase('complete') when all pairs are found
PollResponse ==
    /\ client.fetched # None
    /\ client' = [client EXCEPT !.gameState = reconcile(@, client.fetched[1]),
                                !.gamePhase = phase_after(@, client.fetched[1]),
                                !.fetched = None]
    /\ UNCHANGED << games, verifier, last, ledger >>

\* the client as a viewer: the session is started, the other player
\* flips, and the ticks of the poll overlap (a response may arrive after
\* the response of a later tick)
NextFetch ==
    \/ ClientStartGame
    \/ OpponentFlip
    \/ Poll
    \/ PollRequest
    \/ PollResponse

SpecFetch == Init /\ [][NextFetch]_vars

NextClient ==
    \/ ClientStartGame
    \/ Poll
    \/ OpponentFlip
    \/ ClickCard
    \/ SubmitCard
    \/ RefreshGame
    \/ RefreshStale
    \/ StartNewGame

SpecClient == Init /\ [][NextClient]_vars

(***************************************************************************)
(* Properties of the session state machine                                 *)
(***************************************************************************)

HasGame(s) == games[s] # None

Game(s) == games[s][1]

\* the last call was a flip_card that the contract accepted
FlipAccepted == last.op = "flip_card" /\ last.err = "Ok"

FlipErrors ==
    {"GameNotFound", "GameNotActive", "NotYourTurn", "InvalidPosition",
     "CardAlreadyMatched", "InvalidProof"}

\* C1, as stated: score1 + score2 == 2 * pairs_found in every reachable
\* state of a session.
ScoreSumIsTwicePairsFound ==
    \A s \in SessionIds :
        HasGame(s) => Game(s).score1 + Game(s).score2 = 2 * Game(s).pairs_found

\* C1, amended: in every reachable state of a session score1 + score2 equals
\* pairs_found (a match adds one pair and one point).
ScoreSumIsPairsFound ==
    \A s \in SessionIds :
        HasGame(s) => Game(s).score1 + Game(s).score2 = Game(s).pairs_found

\* a session in which each player has scored one pair
ScoreSumWitness ==
    \E s \in SessionIds :
        HasGame(s) /\ Game(s).score1 = 1 /\ Game(s).score2 = 1

\* C2: a session holds at most one pending flip (flip_one and flip_one_value
\* are both None or both hold one value); the pending flip is None right
\* after start_game and right after every accepted second flip, matched or
\* not.
PendingFlipShape ==
    \A s \in SessionIds :
        HasGame(s) =>
            /\ Len(Game(s).flip_one) <= 1
            /\ Len(Game(s).flip_one_value) = Len(Game(s).flip_one)

PendingFlipExclusive ==
    /\ [] PendingFlipShape
    /\ [] (last.op = "start_game" /\ last.err = "Ok"
              => Game(last.session_id).flip_one = None
                 /\ Game(last.session_id).flip_one_value = None)
    /\ [][ (/\ last'.op = "flip_card"
            /\ last'.err = "Ok"
            /\ Stored(last'.session_id)[1].flip_one # None)
           => /\ games'[last'.session_id][1].flip_one = None
              /\ games'[last'.session_id][1].flip_one_value = None ]_vars

\* an accepted second flip that did not match has just been applied (no
\* pair has been found yet and the pending flip is gone)
PendingFlipWitness ==
    /\ FlipAccepted
    /\ Game(last.session_id).pairs_found = 0
    /\ Game(last.session_id).flip_one = None

\* C3: an accepted second flip that does not match (the value differs from
\* the pending value, or the position is the pending position) hands
\* current_turn to the other player, which changes it whenever the two
\* players differ; an accepted second flip that matches leaves current_turn
\* as it is.
TurnAlternation ==
    \A s \in SessionIds, req \in FlipRequests :
        LET r == Flip(s, req)
        IN (HasGame(s) /\ Game(s).flip_one # None /\ r.err = "Ok") =>
            LET g      == Game(s)
                after  == r.stored[1]
                match  == /\ g.flip_one_value[1] = req.revealed_value
                          /\ g.flip_one[1] # req.position
            IN IF match
               THEN after.current_turn = g.current_turn
               ELSE /\ after.current_turn = other_player(g, g.current_turn)
                    /\ g.player1 # g.player2 => after.current_turn # g.current_turn

\* player1 flipped twice without a match and the turn is now player2's
TurnAlternationWitness ==
    /\ FlipAccepted
    /\ Game(last.session_id).pairs_found = 0
    /\ Game(last.session_id).flip_one = None
    /\ Game(last.session_id).player1 # Game(last.session_id).player2
    /\ Game(last.session_id).current_turn = Game(last.session_id).player2

\* C4: a flip_card call that is rejected, for whichever reason, leaves
\* storage as it was: cards, scores, pending flip, current_turn, pairs_found
\* and is_active of every session; and a flip_card call fails with one of
\* the six errors only.
RejectedFlipChangesNothing ==
    /\ [] (last.op = "flip_card" => last.err \in FlipErrors \cup {"Ok"})
    /\ [][ (last'.op = "flip_card" /\ last'.err # "Ok") => games' = games ]_vars

\* a flip was rejected while a first flip was pending
RejectedFlipWitness ==
    /\ last.op = "flip_card"
    /\ last.err = "InvalidPosition"
    /\ HasGame(last.session_id)
    /\ Game(last.session_id).flip_one # None

TerminalSessionFrozen ==
    [][ \A s \in SessionIds :
          (HasGame(s) /\ Game(s).pairs_found = TotalPairs) =>
              /\ games'[s] = games[s]
              /\ (last'.op = "flip_card" /\ last'.session_id = s)
                    => last'.err = "GameNotActive" ]_vars

\* C7: the proof is verified before anything is changed: a flip that passes
\* the checks and whose proof the verifier rejects fails with InvalidProof,
\* and a flip that fails with InvalidProof leaves storage as it was.
VerifyBeforeMutation ==
    /\ [] (\A s \in SessionIds, req \in FlipRequests :
            LET r == Flip(s, req)
            IN (/\ HasGame(s)
                /\ check_flip(Game(s), req.caller, req.position) = "Ok"
                /\ ~verify_card_reveal_proof(verifier, req.proof, req.public_inputs,
                                             Game(s).deck_commitment))
               => r.err = "InvalidProof" /\ r.stored = games[s] /\ r.hub = << >>)
    /\ [][ (last'.op = "flip_card" /\ last'.err = "InvalidProof")
             => games' = games ]_vars

\* the verifier rejected the second flip of a turn
VerifyBeforeMutationWitness ==
    /\ last.op = "flip_card"
    /\ last.err = "InvalidProof"
    /\ Game(last.session_id).flip_one # None

ForeignCommitmentRejected ==
    \A s \in SessionIds, req \in FlipRequests :
        (/\ HasGame(s)
         /\ check_flip(Game(s), req.caller, req.position) = "Ok"
         /\ req.public_inputs.commitment # Game(s).deck_commitment)
        => Flip(s, req).err = "InvalidProof"

\* C10: a flip on a position whose card is Matched is rejected and changes
\* nothing, whatever its proof; made by the holder of the turn on an active
\* session it fails with CardAlreadyMatched, and after that failure the
\* pending flip and the turn are as before.
MatchedCardFlipRejected ==
    /\ [] (\A s \in SessionIds, req \in FlipRequests :
            LET r == Flip(s, req)
            IN (/\ HasGame(s)
                /\ req.position \in Positions
                /\ Game(s).cards[req.position] = "Matched")
               => /\ r.err # "Ok"
                  /\ r.stored = games[s]
                  /\ (Game(s).is_active /\ req.caller = Game(s).current_turn)
                        => r.err = "CardAlreadyMatched")
    /\ [][ (last'.op = "flip_card" /\ last'.err = "CardAlreadyMatched")
             => games' = games ]_vars

\* a flip on a Matched card was rejected while a first flip was pending
MatchedCardFlipWitness ==
    /\ last.op = "flip_card"
    /\ last.err = "CardAlreadyMatched"
    /\ Game(last.session_id).flip_one # None
    /\ Game(last.session_id).pairs_found = 1

\* C11: an accepted second flip whose value equals the pending value at a
\* position other than the pending position marks exactly those two cards
\* Matched (every other card is as before), adds one to pairs_found, and
\* adds one to the score of the player holding the turn and nothing to the
\* other score.
MatchMarksPairAndScores ==
    \A s \in SessionIds, req \in FlipRequests :
        LET r == Flip(s, req)
        IN (/\ HasGame(s)
            /\ Game(s).flip_one # None
            /\ r.err = "Ok"
            /\ Game(s).flip_one_value[1] = req.revealed_value
            /\ Game(s).flip_one[1] # req.position)
           => LET g     == Game(s)
                  after == r.stored[1]
                  pair  == {g.flip_one[1], req.position}
              IN /\ \A p \in Positions :
                       after.cards[p] = IF p \in pair THEN "Matched" ELSE g.cards[p]
                 /\ \A p \in pair : g.cards[p] = "FaceDown"
                 /\ after.pairs_found = g.pairs_found + 1
                 /\ IF g.current_turn = g.player1
                    THEN after.score1 = g.score1 + 1 /\ after.score2 = g.score2
                    ELSE after.score2 = g.score2 + 1 /\ after.score1 = g.score1

\* player2 has just matched the first pair of a session
MatchMarksPairWitness ==
    /\ FlipAccepted
    /\ Game(last.session_id).pairs_found = 1
    /\ Game(last.session_id).score2 = 1
    /\ Game(last.session_id).flip_one = None
    /\ Cardinality({p \in Positions :
                      Game(last.session_id).cards[p] = "Matched"}) = 2

\* C12: an accepted flip made while no flip is pending sets the pending flip
\* to (position, revealed_value) and changes nothing else: current_turn,
\* cards, scores, pairs_found and is_active are as before and the Game Hub
\* is not called.
FirstFlipSetsOnlyPending ==
    \A s \in SessionIds, req \in FlipRequests :
        LET r == Flip(s, req)
        IN (HasGame(s) /\ Game(s).flip_one = None /\ r.err = "Ok")
           => LET g     == Game(s)
                  after == r.stored[1]
              IN /\ after.flip_one = Some(req.position)
                 /\ after.flip_one_value = Some(req.revealed_value)
                 /\ after.current_turn = g.current_turn
                 /\ after.cards = g.cards
                 /\ after.score1 = g.score1
                 /\ after.score2 = g.score2
                 /\ after.pairs_found = g.pairs_found
                 /\ after.is_active = g.is_active
                 /\ after.player1 = g.player1
                 /\ after.player2 = g.player2
                 /\ after.deck_commitment = g.deck_commitment
                 /\ r.hub = << >>

\* the first flip of a turn was accepted after one pair had been found
FirstFlipWitness ==
    /\ FlipAccepted
    /\ Game(last.session_id).flip_one # None
    /\ Game(last.session_id).pairs_found = 1
    /\ Game(last.session_id).is_active

\* C13: a stored session is terminal (is_active is false) exactly when
\* pairs_found equals TotalPairs, and an active session becomes terminal
\* only by an accepted flip_card that finds the last pair.
CompleteIffAllPairsFound ==
    /\ [] (\A s \in SessionIds :
             HasGame(s) => (~Game(s).is_active <=> Game(s).pairs_found = TotalPairs))
    /\ [][ \A s \in SessionIds :
             (HasGame(s) /\ Game(s).is_active /\ ~games'[s][1].is_active)
             => /\ last'.op = "flip_card"
                /\ last'.err = "Ok"
                /\ last'.session_id = s
                /\ Game(s).flip_one # None
                /\ games'[s][1].pairs_found = TotalPairs
                /\ Game(s).pairs_found = TotalPairs - 1 ]_vars

\* a session has been completed
CompleteWitness ==
    \E s \in SessionIds :
        HasGame(s) /\ ~Game(s).is_active /\ Game(s).pairs_found = TotalPairs

\* C19, as stated: start_game with player1 equal to player2 is rejected and
\* creates no session, so no stored session has one address as both of its
\* players and no accepted start_game names one.
SelfPlayRejected ==
    /\ \A s \in SessionIds : HasGame(s) => Game(s).player1 # Game(s).player2
    /\ (last.op = "start_game" /\ last.err = "Ok")
          => last.hub[1].player1 # last.hub[1].player2

\* C20, as stated: a start_game call for a session_id that already has a
\* stored session leaves that session as it is.
StartGameKeepsStoredSession ==
    [][ (last'.op = "start_game" /\ HasGame(last'.session_id))
          => games'[last'.session_id] = games[last'.session_id] ]_vars

(***************************************************************************)
(* Properties of concurrent submission                                     *)
(***************************************************************************)

\* the entry of a session after the transactions txs have been applied to
\* it one after the other, starting from the entry stored
RECURSIVE Replay(_, _)
Replay(stored, txs) ==
    IF txs = << >> THEN stored
    ELSE Replay(flip_card(stored, verifier, txs[1].session_id, txs[1].req.caller,
                          txs[1].req.position, txs[1].req.revealed_value,
                          txs[1].req.proof, txs[1].req.public_inputs).stored,
                Tail(txs))

\* the transaction applied by the step, if the step applied one
JustApplied == ledger'.applied[Len(ledger'.applied)]

SubmitStep ==
    /\ client.pc = "submit"
    /\ client'.pc # "submit" \/ client'.retries # client.retries

\* the flip the running handleFlipCard submits
ClientRequest == client.request[1]

\* a message the client retries on
IsTransient(errorMsg) ==
    includes(errorMsg, "TRY_AGAIN_LATER") \/ includes(errorMsg, "txBadSeq")

\* what the outer catch shows for a failure of the transport
TransportShown ==
    { IF includes(m, "TRY_AGAIN_LATER") THEN Some(BusyMessage) ELSE Some(m) :
        m \in TransportMessages }

\* C15, as stated: within one handleFlipCard invocation no flip is submitted
\* again once a submission of the invocation has succeeded, whatever error
\* is raised afterwards.
NoResubmitAfterLanding ==
    [][ SubmitStep => ~client.landed ]_vars

\* C16: one handleFlipCard invocation calls flipCard at most 3 times; a
\* call after the first is made only after an error whose message contains
\* TRY_AGAIN_LATER or txBadSeq, with one retry less left; and once the
\* invocation is in the branch of another error it submits nothing more.
BoundedRetries ==
    /\ [] (client.attempts <= Retries)
    /\ [][ /\ SubmitStep => client.attempts < Retries
           /\ (SubmitStep /\ client.attempts >= 1)
                => client.lastError # None /\ IsTransient(client.lastError[1])
           /\ (client.pc \in {"submit", "refresh"} /\ client'.pc = "submit"
               /\ client'.retries # client.retries)
                => /\ client'.retries = client.retries - 1
                   /\ client.retries > 1
                   /\ IsTransient(client'.lastError[1])
           /\ client.pc = "stale"
                => client'.pc \in {"stale", "idle"} /\ ~SubmitStep ]_vars

\* the third flipCard call of an invocation, after two transient failures,
\* was accepted
BoundedRetriesWitness ==
    /\ client.attempts = Retries
    /\ client.retries = 1
    /\ client.pc = "refresh"
    /\ ~(\E s \in SessionIds : HasGame(s) /\ Game(s).flip_one = None)

LocalStateOnlyFromFetch ==
    /\ [] (client.pc = "refresh" => client.landed)
    /\ [][ /\ (SubmitStep /\ (games' # games \/ client'.pc = "refresh"))
                => /\ client'.pc = "refresh"
                   /\ client'.landed
                   /\ client'.i = 0
                   /\ client'.gameState = client.gameState
           /\ client'.gameState # client.gameState
                => \/ client'.gameState = games'[ClientSessionId]
                   \/ client'.gameState = None /\ client'.gamePhase = "create"
           /\ (client.pc = "refresh" /\ client'.pc = "idle")
                => client'.gameState \in {games[ClientSessionId], client.gameState} ]_vars

\* the second flip of the turn has landed and did not match, and the
\* handler is in the last round of the refresh loop with its local session
\* still showing the pending flip and its own turn
LocalStateWitness ==
    /\ client.pc = "refresh"
    /\ client.i = RefreshTries - 1
    /\ client.gameState # None
    /\ client.gameState[1].flip_one # None
    /\ client.gameState[1].current_turn = client.userAddress
    /\ Game(ClientSessionId).flip_one = None
    /\ Game(ClientSessionId).current_turn # client.userAddress

\* C21: right after start_game succeeded, the session stored under its id has
\* every position FaceDown, both scores 0, no pair found, no pending flip,
\* the turn with player1, and is active.
FreshSessionAfterStart ==
    (last.op = "start_game" /\ last.err = "Ok")
        => /\ HasGame(last.session_id)
           /\ LET g == Game(last.session_id)
              IN /\ \A p \in Positions : g.cards[p] = "FaceDown"
                 /\ g.score1 = 0 /\ g.score2 = 0
                 /\ g.pairs_found = 0
                 /\ g.flip_one = None /\ g.flip_one_value = None
                 /\ g.current_turn = g.player1
                 /\ g.is_active

\* start_game has just succeeded for two distinct players
FreshSessionWitness ==
    /\ last.op = "start_game" /\ last.err = "Ok"
    /\ HasGame(last.session_id)
    /\ Game(last.session_id).player1 # Game(last.session_id).player2

\* the winner named in the 'Game complete!' message of the client
winner_text(game) ==
    IF game.score1 > game.score2 THEN "Player 1"
    ELSE IF game.score1 < game.score2 THEN "Player 2"
    ELSE "Tie"

HubCalls(l, kind) == { i \in DOMAIN l.hub : l.hub[i].call = kind }

\* C23, as stated: the Game Hub is notified with start_game once per session,
\* by the call that creates it (no session is stored under the id before),
\* and with end_game once, by the accepted flip that brings pairs_found to
\* TotalPairs on a session that was active; no other call notifies the hub.
HubNotifiedOncePerSession ==
    [][ LET s == last'.session_id
        IN /\ Cardinality(HubCalls(last', "start_game")) <= 1
           /\ Cardinality(HubCalls(last', "end_game")) <= 1
           /\ HubCalls(last', "start_game") # {}
                => /\ last'.op = "start_game" /\ last'.err = "Ok"
                   /\ ~HasStored(s)
           /\ HubCalls(last', "end_game") # {}
                => /\ last'.op = "flip_card" /\ last'.err = "Ok"
                   /\ HasGame(s) /\ Game(s).is_active
                   /\ Game(s).pairs_found = TotalPairs - 1
                   /\ games'[s][1].pairs_found = TotalPairs
                   /\ ~games'[s][1].is_active ]_vars

\* the positions flipped by the transactions txs, in order
FlippedPositions(txs) == [k \in 1..Len(txs) |-> txs[k].req.position]

\* every transaction of txs is accepted when they are applied, one after the
\* other, to the entry stored
AllAccepted(stored, txs) ==
    \A k \in 1..Len(txs) :
        flip_card(Replay(stored, SubSeq(txs, 1, k - 1)), verifier,
                  txs[k].session_id, txs[k].req.caller, txs[k].req.position,
                  txs[k].req.revealed_value, txs[k].req.proof,
                  txs[k].req.public_inputs).err = "Ok"

\* the flips of txs, taken two by two, are pairs of matching cards of deck:
\* two different positions with the same value
OnlyMatchingPairs(deck, txs) ==
    \A k \in 1..Len(txs) :
        k % 2 = 0 => /\ txs[k].req.position # txs[k - 1].req.position
                     /\ deck[txs[k].req.position + 1] = deck[txs[k - 1].req.position + 1]

RejectionConditions(game, req) ==
    << << "GameNotActive", ~game.is_active >>,
       << "NotYourTurn", req.caller # game.current_turn >>,
       << "InvalidPosition", req.position \notin Positions >>,
       << "CardAlreadyMatched",
          req.position \in Positions /\ game.cards[req.position] = "Matched" >>,
       << "InvalidProof",
          ~verify_card_reveal_proof(verifier, req.proof, req.public_inputs,
                                    game.deck_commitment) >> >>

\* C25: a flip on a stored session is accepted exactly when no rejection
\* condition holds, and otherwise the error reported is that of the earliest
\* condition that holds, in the order GameNotActive, NotYourTurn,
\* InvalidPosition, CardAlreadyMatched, InvalidProof.
EarliestRejectionReported ==
    \A s \in SessionIds, req \in FlipRequests :
        HasGame(s) =>
            LET conds   == RejectionConditions(Game(s), req)
                holding == { k \in DOMAIN conds : conds[k][2] }
                r       == Flip(s, req)
            IN IF holding = {}
               THEN r.err = "Ok"
               ELSE \E k \in holding :
                       /\ \A j \in holding : k <= j
                       /\ r.err = conds[k][1]

\* a flip has just been rejected on a terminal session, and some request has
\* all of terminal session, wrong turn and position out of range against it,
\* and another one wrong turn and a matched card
SeveralRejectionsWitness ==
    /\ last.op = "flip_card" /\ last.err = "GameNotActive"
    /\ HasGame(last.session_id)
    /\ LET g == Game(last.session_id)
       IN /\ ~g.is_active
          /\ \E req \in FlipRequests :
                /\ req.caller # g.current_turn
                /\ req.position \notin Positions
                /\ Flip(last.session_id, req).err = "GameNotActive"
          /\ \E req \in FlipRequests :
                /\ req.caller # g.current_turn
                /\ req.position \in Positions
                /\ g.cards[req.position] = "Matched"
                /\ Flip(last.session_id, req).err = "GameNotActive"

\* C26: a get_game or flip_card call on a session id with no stored session
\* fails with GameNotFound, notifies nobody and leaves storage as it is (no
\* session is created, none is changed); a get_game call never changes
\* storage, and returns the session when one is stored.
MissingSessionNotFound ==
    [][ LET s == last'.session_id
        IN /\ (last'.op \in {"get_game", "flip_card"} /\ ~HasStored(s))
                => /\ last'.err = "GameNotFound"
                   /\ last'.hub = << >>
                   /\ games' = games
           /\ last'.op = "get_game"
                => /\ games' = games
                   /\ HasStored(s) <=> last'.err = "Ok"
           /\ last'.err = "GameNotFound" => ~HasStored(s) ]_vars

\* get_game has just failed with GameNotFound for an id that has no session
\* while another session is stored
MissingSessionWitness ==
    /\ last.op = "get_game" /\ last.err = "GameNotFound"
    /\ ~HasStored(last.session_id)
    /\ \E s \in SessionIds : HasGame(s) /\ Game(s).flip_one # None

\* C27, as stated: for the (deck, salt) a stored session was committed to by
\* generateCommitment, the commitment that generateNoirProof computes, proves
\* against and places in publicInputs for a flip of any card of that deck is
\* the commitment stored in the session.
ProofCommitmentIsStoredCommitment ==
    \A s \in SessionIds :
        HasGame(s) =>
            \A deck \in Decks, salt \in Salts, position \in Positions :
                generateCommitment(deck, salt) = Game(s).deck_commitment
                    => LET noir == generateNoirProof(deck, salt, position,
                                                    deck[position + 1])
                       IN /\ noir.publicInputs.commitment = Game(s).deck_commitment
                          /\ noir.commitment = Game(s).deck_commitment

\* C28, as stated: the deck and the salt stay with the dealer; the client of
\* a player other than the dealer is handed neither the cleartext deck nor
\* the salt.
DeckPrivateToDealer ==
    client.userAddress \notin Dealers
        => client.deck = << >> /\ client.salt = None

\* the arguments commit is checked on: every array of at most NumCards card
\* values, and two salts
DeckArgs == UNION { [1..n -> Values] : n \in 0..NumCards }

SaltArgs == Salts \cup {"salt-2"}

\* generateCommitment sends two different decks to two different commitments
\* when the salt is the same
CommitDistinguishesDecks ==
    \A d1 \in DeckArgs, d2 \in DeckArgs, salt \in SaltArgs :
        generateCommitment(d1, salt) = generateCommitment(d2, salt) => d1 = d2

\* C29: generateCommitment is a function of (deck, salt) that distinguishes
\* decks: computing it again for the deck and salt a stored session was
\* committed to gives the stored commitment, no other deck gives that
\* commitment with the same salt, and for every salt two different decks
\* have different commitments (SHA-256 taken as collision free, so this is
\* injectivity of the serialisation fed to it).
CommitDeterministicAndBinding ==
    /\ CommitDistinguishesDecks
    /\ \A s \in SessionIds :
          HasGame(s) =>
              \E deck \in Decks, salt \in Salts :
                  /\ generateCommitment(deck, salt) = Game(s).deck_commitment
                  /\ \A d \in DeckArgs :
                        generateCommitment(d, salt) = Game(s).deck_commitment
                            => d = deck

\* a session is stored under the commitment of deck [0,1,0,1], which is not
\* the commitment of deck [0,0,1,1] under the same salt
CommitWitness ==
    /\ last.op = "start_game" /\ last.err = "Ok"
    /\ HasGame(last.session_id)
    /\ Game(last.session_id).deck_commitment = generateCommitment(<<0, 1, 0, 1>>, "salt-1")
    /\ Game(last.session_id).deck_commitment # generateCommitment(<<0, 0, 1, 1>>, "salt-1")

\* C30, as stated, for the first flip of a turn: when handleFlipCard unlocks
\* the UI (loading cleared, action lock released) after its one flipCard call
\* returned without an error, the local session is a fetched one that
\* reflects the flip: it shows the flipped position as the pending flip.
\* (Nothing else can change the stored session in between: the pending
\* flip keeps the turn with this player.)
UnlockOnlyAfterFlipObserved ==
    [][ ( /\ client.loading /\ ~client'.loading
          /\ client.landed /\ client.attempts = 1
          /\ client.flip_one = None )
            => /\ ~client'.actionLock
               /\ client'.gameState # None
               /\ client'.gameState[1].flip_one = Some(client.position) ]_vars

\* C31: an accepted second flip at the position of the pending flip is not a
\* match, whatever value it claims (the pending value included): no card
\* state, no score and no pairs_found changes, the pending flip is cleared,
\* the turn passes to the other player, and the Game Hub is not notified.
SamePositionNeverMatches ==
    \A s \in SessionIds, req \in FlipRequests :
        LET r == Flip(s, req)
        IN (/\ HasGame(s)
            /\ Game(s).flip_one = Some(req.position)
            /\ r.err = "Ok")
           => LET g == Game(s)
              IN /\ r.stored = Some([g EXCEPT !.flip_one = None,
                                              !.flip_one_value = None,
                                              !.current_turn = other_player(g, g.current_turn)])
                 /\ r.stored[1].cards = g.cards
                 /\ r.stored[1].score1 = g.score1
                 /\ r.stored[1].score2 = g.score2
                 /\ r.stored[1].pairs_found = g.pairs_found
                 /\ r.hub = << >>

\* a first flip is pending between two distinct players and a flip of the
\* same position that claims the same value would be accepted
SamePositionWitness ==
    /\ FlipAccepted
    /\ LET g == Game(last.session_id)
       IN /\ g.flip_one # None
          /\ g.player1 # g.player2
          /\ \E req \in FlipRequests :
                /\ req.position = g.flip_one[1]
                /\ req.revealed_value = g.flip_one_value[1]
                /\ Flip(last.session_id, req).err = "Ok"

\* C35: in every active stored session fewer than TotalPairs pairs are
\* found, some position in range is FaceDown, and the player holding the
\* turn has a flip the contract accepts: a flip of a FaceDown position with
\* the card's value and a proof of it.
NoStuckGame ==
    \A s \in SessionIds :
        (HasGame(s) /\ Game(s).is_active)
            => /\ Game(s).pairs_found < TotalPairs
               /\ \E p \in Positions : Game(s).cards[p] = "FaceDown"
               /\ \E req \in FlipRequests :
                     /\ req.caller = Game(s).current_turn
                     /\ req.position \in Positions
                     /\ Game(s).cards[req.position] = "FaceDown"
                     /\ Flip(s, req).err = "Ok"

\* one pair is found, a first flip is pending, the turn is with player2 and
\* the last flip was rejected: the session is still active
NoStuckGameWitness ==
    /\ last.op = "flip_card" /\ last.err # "Ok"
    /\ HasStored(last.session_id)
    /\ LET g == Game(last.session_id)
       IN /\ g.is_active
          /\ g.pairs_found = TotalPairs - 1
          /\ g.flip_one # None
          /\ g.player1 # g.player2
          /\ g.current_turn = g.player2

\* the positions of game whose card is Matched
MatchedCards(game) == { p \in Positions : game.cards[p] = "Matched" }

\* C36, as stated: in every stored session the number of Matched cards is
\* 2 * pairs_found, and no step takes a Matched card of a session back to
\* FaceDown.
MatchedCardsStayMatched ==
    /\ [] (\A s \in SessionIds :
             HasGame(s)
                => Cardinality(MatchedCards(Game(s))) = 2 * Game(s).pairs_found)
    /\ [][ \A s \in SessionIds :
             HasGame(s) => /\ games'[s] # None
                           /\ MatchedCards(Game(s)) \subseteq MatchedCards(games'[s][1]) ]_vars

\* C40: in every stored session flip_one and flip_one_value are both None
\* or both hold one value, and a pending position is in range with its card
\* FaceDown.
PendingFlipFields ==
    \A s \in SessionIds :
        HasGame(s) =>
            LET g == Game(s)
            IN /\ g.flip_one = None <=> g.flip_one_value = None
               /\ g.flip_one # None
                    => /\ Len(g.flip_one) = 1 /\ Len(g.flip_one_value) = 1
                       /\ g.flip_one[1] \in Positions
                       /\ g.cards[g.flip_one[1]] = "FaceDown"
                       /\ g.flip_one_value[1] \in Values

\* a first flip is pending on the last FaceDown pair, next to a Matched one
PendingFlipFieldsWitness ==
    /\ FlipAccepted
    /\ LET g == Game(last.session_id)
       IN /\ g.flip_one # None
          /\ g.flip_one_value # None
          /\ g.pairs_found = TotalPairs - 1
          /\ \E p \in Positions : g.cards[p] = "Matched"

\* C39, as stated: the first retry of a submission is made after a wait of
\* 1000 ms, and every later retry after a longer wait than the one before.
BackoffStartsAtOneSecond ==
    /\ [] ((client.pc = "submit" /\ client.attempts = 1) => client.waited = 1000)
    /\ [][ (client'.pc = "submit" /\ client'.retries < client.retries)
              => client'.waited > client.waited ]_vars

\* C32, as stated: the client never submits a flip of the position that is
\* the pending first flip of the stored session.
NeverSubmitsPendingPosition ==
    [][ SubmitStep
          => ~( /\ HasStored(ClientSessionId)
                /\ Game(ClientSessionId).flip_one = Some(ClientRequest.position) ) ]_vars

\* a handleFlipCard invocation is running (it is at one of its awaits)
FlipInFlight == client.pc # "idle"

\* C33, as stated: while an action of the client is running, the guard every
\* create, import and flip handler starts with (actionLock.current ||
\* loading) is closed, so a handler called then returns at once and submits
\* nothing.
OneActionInFlight == FlipInFlight => (client.actionLock \/ client.loading)

\* C37, as stated: after handleStartNewGame the session and the phase of the
\* new game are not set by the result of a flip of the old game that was in
\* flight: until the new game is started there is no local session and the
\* phase is 'create'.
LateFlipLeavesNewGame ==
    client.sessionId = NewSessionId
        => client.gameState = None /\ client.gamePhase = "create"

\* a step of the running handleFlipCard: one of its awaits returned
FlipStep ==
    /\ FlipInFlight
    /\ << client.pc, client.i, client.retries, client.attempts >>
         # << client'.pc, client'.i, client'.retries, client'.attempts >>

\* what is left of a handleFlipCard invocation: the submissions the retry
\* loop may still make, each with its refresh rounds and the stale branch
\* after them
FlipRemaining(c) ==
    c.retries * (RefreshTries + 3)
        + (IF c.pc = "submit" THEN RefreshTries + 2
           ELSE IF c.pc = "refresh" THEN RefreshTries + 1 - c.i
           ELSE IF c.pc = "stale" THEN 1
           ELSE 0)

\* C34: a handleFlipCard invocation that took the action lock ends on every
\* path and its end releases the lock and clears loading: while it runs one
\* of its awaits can always return, every return of an await brings the end
\* nearer (the retries and the refresh rounds left only decrease), and the
\* step that ends it leaves actionLock and loading false; the refresh loop
\* fetches at most RefreshTries (3) times per submission that returned, and
\* neither a fetch nor giving up changes a stored session.
FlipAlwaysReleases ==
    /\ [] (FlipInFlight => ENABLED (SubmitCard \/ RefreshGame \/ RefreshStale))
    /\ [] (client.pc = "refresh" => client.landed /\ client.i < RefreshTries)
    /\ [][ FlipStep => /\ FlipRemaining(client') < FlipRemaining(client)
                       /\ client'.pc = "idle"
                            => ~client'.actionLock /\ ~client'.loading ]_vars
    /\ [][ (FlipStep /\ client.pc \in {"refresh", "stale"}) => games' = games ]_vars

\* a handleFlipCard invocation ended on an error path (retries exhausted or
\* a failed re-fetch) after a flip was accepted: the lock is released,
\* loading is cleared and the busy message is shown
FlipReleasedAfterError ==
    /\ client.pc = "idle" /\ client.sessionId = ClientSessionId
    /\ client.error = Some(BusyMessage)
    /\ ~client.actionLock /\ ~client.loading
    /\ last.op = "flip_card" /\ last.err = "Ok"

\* C38, as stated: the local gameState is a snapshot the authority held and
\* a displayed snapshot is never replaced by an older one, in whatever order
\* the responses of the fetches arrive: the pairs found of the displayed
\* session never go down (the session is started once and the stored
\* pairs_found only grows).
DisplayedSnapshotNeverOlder ==
    [][ (client.gameState # None /\ client'.gameState # None)
            => client'.gameState[1].pairs_found >= client.gameState[1].pairs_found ]_vars

====
